---- MODULE Spec2Model ----
(***************************************************************************)
(* Password-Validator: the rule engine of password_validator.py and the    *)
(* Tk form of app.py that drives it.                                       *)
(*                                                                         *)
(* A password is a sequence of characters.  An ASCII character is the      *)
(* one-character string itself; a character outside ASCII is written as    *)
(* its code point: "U+00C9" is LATIN CAPITAL LETTER E WITH ACUTE, "U+00E9" *)
(* its lowercase, "U+00B2" SUPERSCRIPT TWO, "U+0663" ARABIC-INDIC DIGIT    *)
(* THREE, "U+00A0" NO-BREAK SPACE.                                         *)
(***************************************************************************)
EXTENDS Naturals, Sequences, FiniteSets

VARIABLES
    \* ---- password_validator.py, called as a library / from __main__ ----
    password,       \* the argument of the call
    fn,             \* the function that was applied ("none" before the call)
    ret,            \* what it returned
    ret_line,       \* is_valid_password: the line of the return statement taken
    stdout,         \* check_passwords_from_list: the line printed
    \* ---- app.py, PasswordValidatorGUI ----
    pwd_entry,      \* self.pwd_entry: [text, show]
    show_pwd_var,   \* self.show_pwd_var
    req_labels,     \* self.req_labels: TRUE is a check mark, FALSE a cross
    strength_bar,   \* self.strength_bar: the rectangles on the canvas
    strength_var,   \* self.strength_var
    result_label,   \* self.result_label: [text, fg]
    messagebox,     \* the modal warning box that is open, or NoBox
    event           \* the handler that ran last

libVars == <<password, fn, ret, ret_line, stdout>>
guiVars == <<pwd_entry, show_pwd_var, req_labels, strength_bar, strength_var,
             result_label, messagebox, event>>
vars == <<password, fn, ret, ret_line, stdout, pwd_entry, show_pwd_var,
          req_labels, strength_bar, strength_var, result_label, messagebox,
          event>>

(***************************************************************************)
(* Characters and Python's classification of them.                        *)
(***************************************************************************)
ascii_uppercase ==
    <<"A","B","C","D","E","F","G","H","I","J","K","L","M",
      "N","O","P","Q","R","S","T","U","V","W","X","Y","Z">>

ascii_lowercase ==
    <<"a","b","c","d","e","f","g","h","i","j","k","l","m",
      "n","o","p","q","r","s","t","u","v","w","x","y","z">>

ascii_digits == {"0","1","2","3","4","5","6","7","8","9"}

Range(s) == {s[i] : i \in DOMAIN s}

\* the regular expression classes of password_validator.py
re_upper == Range(ascii_uppercase)

re_lower == Range(ascii_lowercase)

re_letter == re_upper \cup re_lower

\* \d on a str pattern: every Unicode decimal digit (category Nd)
re_digit == ascii_digits \cup {"U+0663"}

\* \s on a str pattern: every Unicode whitespace character
re_space == {" ", "\t", "\n", "U+00A0"}

re_symbol == {"!","@","#","$","%","^","&","*","(",")",",",".","?","\"",
              ":","{","}","|","<",">"}

\* str.isupper / str.islower / str.isdigit / str.isspace of one character
isupper(c) == c \in re_upper \cup {"U+00C9"}

islower(c) == c \in re_lower \cup {"U+00E9"}

isdigit(c) == c \in ascii_digits \cup {"U+0663", "U+00B2"}

isspace(c) == c \in {" ", "\t", "\n", "U+00A0"}

\* str.lower of one character
char_lower(c) ==
    IF c \in re_upper
    THEN ascii_lowercase[CHOOSE i \in 1..26 : ascii_uppercase[i] = c]
    ELSE IF c = "U+00C9" THEN "U+00E9" ELSE c

\* str.lower
lower(s) == [i \in DOMAIN s |-> char_lower(s[i])]

\* re.search(<character class>, s)
re_search(class, s) == \E i \in DOMAIN s : s[i] \in class

\* s.count(c) for a one-character c: a left-to-right scan
RECURSIVE count(_, _)
count(s, c) ==
    IF s = <<>> THEN 0
    ELSE (IF Head(s) = c THEN 1 ELSE 0) + count(Tail(s), c)

\* pat in s
contains(s, pat) ==
    \E k \in 0..(Len(s) - Len(pat)) :
        \A j \in 1..Len(pat) : s[k + j] = pat[j]

\* sum(s.count(c) for c in group)
RECURSIVE group_count(_, _)
group_count(s, group) ==
    IF group = <<>> THEN 0
    ELSE count(s, Head(group)) + group_count(s, Tail(group))

(***************************************************************************)
(* password_validator.py                                                   *)
(***************************************************************************)
COMMON_PASSWORDS ==
    { <<"p","a","s","s","w","o","r","d">>,
      <<"1","2","3","4","5","6">>,
      <<"q","w","e","r","t","y">>,
      <<"l","e","t","m","e","i","n">>,
      <<"a","d","m","i","n">>,
      <<"i","l","o","v","e","y","o","u">> }

\* a variant of has_excessive_repetition that compares with >= instead of >
has_excessive_repetition_ge(p) ==
    \E char \in Range(p) : count(p, char) >= Len(p) \div 2

has_excessive_repetition(p) ==
    \E char \in Range(p) : count(p, char) > Len(p) \div 2

patterns ==
    << <<"q","w","e","r","t","y">>,
       <<"a","s","d","f","g","h">>,
       <<"z","x","c","v","b","n">>,
       <<"1","2","3","4","5">>,
       <<"p","a","s","s","w","o","r","d">> >>

has_keyboard_pattern(p) ==
    \E k \in DOMAIN patterns : contains(lower(p), patterns[k])

ambiguous_groups == << <<"l","1","I">>, <<"O","0","o">> >>

has_ambiguous_characters(p) ==
    \E g \in DOMAIN ambiguous_groups :
        group_count(p, ambiguous_groups[g]) > Len(p) \div 2

\* a variant of looks_human_like whose digit class is [0-9] instead of \d
looks_human_like_ascii_digit(p) ==
    LET has_letter == re_search(re_letter, p)
        has_digit  == re_search(ascii_digits, p)
        has_symbol == re_search(re_symbol, p)
    IN  has_letter /\ has_digit /\ has_symbol

looks_human_like(p) ==
    LET has_letter == re_search(re_letter, p)
        has_digit  == re_search(re_digit, p)
        has_symbol == re_search(re_symbol, p)
    IN  has_letter /\ has_digit /\ has_symbol

\* a variant of is_valid_password without the whitespace check
is_valid_password_return_no_space_check(p) ==
    IF p \in COMMON_PASSWORDS THEN 127
    ELSE IF Len(p) < 8 THEN 130
    ELSE IF ~re_search(re_upper, p) THEN 136
    ELSE IF ~re_search(re_lower, p) THEN 139
    ELSE IF ~re_search(re_digit, p) THEN 142
    ELSE IF ~re_search(re_symbol, p) THEN 145
    ELSE IF has_excessive_repetition(p) THEN 152
    ELSE IF has_keyboard_pattern(p) THEN 155
    ELSE IF has_ambiguous_characters(p) THEN 158
    ELSE IF ~looks_human_like(p) THEN 161
    ELSE 165

\* a variant of is_valid_password without the uppercase check
is_valid_password_return_no_upper_check(p) ==
    IF p \in COMMON_PASSWORDS THEN 127
    ELSE IF Len(p) < 8 THEN 130
    ELSE IF re_search(re_space, p) THEN 133
    ELSE IF ~re_search(re_lower, p) THEN 139
    ELSE IF ~re_search(re_digit, p) THEN 142
    ELSE IF ~re_search(re_symbol, p) THEN 145
    ELSE IF has_excessive_repetition(p) THEN 152
    ELSE IF has_keyboard_pattern(p) THEN 155
    ELSE IF has_ambiguous_characters(p) THEN 158
    ELSE IF ~looks_human_like(p) THEN 161
    ELSE 165

\* is_valid_password, as the source line of the return statement it takes
is_valid_password_return(p) ==
    IF p \in COMMON_PASSWORDS THEN 127
    ELSE IF Len(p) < 8 THEN 130
    ELSE IF re_search(re_space, p) THEN 133
    ELSE IF ~re_search(re_upper, p) THEN 136
    ELSE IF ~re_search(re_lower, p) THEN 139
    ELSE IF ~re_search(re_digit, p) THEN 142
    ELSE IF ~re_search(re_symbol, p) THEN 145
    ELSE IF has_excessive_repetition(p) THEN 152
    ELSE IF has_keyboard_pattern(p) THEN 155
    ELSE IF has_ambiguous_characters(p) THEN 158
    ELSE IF ~looks_human_like(p) THEN 161
    ELSE 165

is_valid_password(p) == is_valid_password_return(p) = 165

accepted_passwords ==
    << <<"S","t","r","o","n","g","P","a","s","s","1","!">>,
       <<"V","a","l","i","d","$","P","a","s","s","2">>,
       <<"M","y","P","a","s","s","@","1","2","3">>,
       <<"T","e","s","t","#","P","a","s","s","9","9">>,
       <<"H","a","r","s","h","_","2","0","2","5","@">>,
       <<"P","y","t","h","o","n","@","3","2","1">>,
       <<"G","o","o","d","#","P","a","s","s","7","7">>,
       <<"S","e","c","u","r","e","$","P","a","s","s","8","8">>,
       <<"A","l","p","h","a","@","2","0","2","4">>,
       <<"V","a","l","i","d","P","a","s","s","#","1","0">> >>

rejected_passwords ==
    << <<"s","h","o","r","t","1","!">>,
       <<"N","o","N","u","m","b","e","r","!">>,
       <<"n","o","u","p","p","e","r","c","a","s","e","1","!">>,
       <<"N","O","L","O","W","E","R","C","A","S","E","1","!">>,
       <<"N","o","S","p","e","c","i","a","l","1","2","3">>,
       <<"1","2","3","4","5","6","7","8","9","0">>,
       <<"p","a","s","s","w","o","r","d">>,
       <<"q","w","e","r","t","y","1","2","3">>,
       <<"P","a","s","s"," ","w","o","r","d","1","!">>,
       <<"o","n","l","y","l","o","w","e","r","c","a","s","e">> >>

(***************************************************************************)
(* The passwords the functions are applied to: a seed followed by a tail   *)
(* of at most MaxTail characters of TailChars, and the documented lists.   *)
(***************************************************************************)
MaxTail == 4

TailChars == {"A", "a", "1", "!"}

RECURSIVE Tails(_)
Tails(n) ==
    IF n = 0 THEN {<<>>}
    ELSE Tails(n - 1) \cup
         {Append(t, c) : t \in {u \in Tails(n - 1) : Len(u) = n - 1}, c \in TailChars}

Seeds ==
    { <<>>,
       <<"B","c","d","2">>,
       <<"B","c","d","e">>,
       <<"b","c","d","2","#">>,
       <<"a","a","a","a">>,
       <<"a","a","a">>,
       <<"B","a","a","a","a">>,
       <<"q","w","e","r","t","y">>,
       <<"Q","W","e","r","t","y">>,
       <<"q","w","e","r","t">>,
       <<"a","s","d","f","g","h">>,
       <<"z","x","c","v","b","n">>,
       <<"1","2","3","4","5">>,
       <<"1","2","3","4">>,
       <<"P","a","s","s","w","o","r","d">>,
       <<"p","a","s","s","w","o","r","d">>,
       <<"1","2","3","4","5","6">>,
       <<"l","e","t","m","e","i","n">>,
       <<"a","d","m","i","n">>,
       <<"i","l","o","v","e","y","o","u">>,
       <<"l","1","I","l">>,
       <<"O","0","o","O","0">>,
       <<"O","0","o","O","b">>,
       <<"U+00C9","b","c","2">>,
       <<"B","U+00E9","C","2">>,
       <<"B","c","d","U+00B2">>,
       <<"B","c","d","U+0663">>,
       <<"B","c","2","U+00A0">>,
       <<"B","c"," ","2">>,
       <<"B","c","\t","2">>,
       <<"B","c","_","2">>,
       <<"B","c","2","@">>,
       <<"B","c","2","\"">>,
       <<"B","c","2",">">>,
       <<"B","c","2","-">> }

Inputs ==
    {s \o t : s \in Seeds, t \in Tails(MaxTail)}
        \cup Range(accepted_passwords) \cup Range(rejected_passwords)

(***************************************************************************)
(* app.py: PasswordValidatorGUI                                            *)
(***************************************************************************)
\* the characters of the string literal of the fifth requirement
requirements_special ==
    {"!","@","#","$","%","^","&","*","(",")",",",".","?","\"",
     ":","{","}","|","<",">"}

\* the set literal of the seventh requirement
requirements_common ==
    { <<"p","a","s","s","w","o","r","d">>,
      <<"1","2","3","4","5","6">>,
      <<"q","w","e","r","t","y">>,
      <<"l","e","t","m","e","i","n">>,
      <<"a","d","m","i","n">>,
      <<"i","l","o","v","e","y","o","u">> }

\* self.requirements[i]'s check, applied to pwd
requirements(i, pwd) ==
    CASE i = 1 -> Len(pwd) >= 8
      [] i = 2 -> \E k \in DOMAIN pwd : isupper(pwd[k])
      [] i = 3 -> \E k \in DOMAIN pwd : islower(pwd[k])
      [] i = 4 -> \E k \in DOMAIN pwd : isdigit(pwd[k])
      [] i = 5 -> \E k \in DOMAIN pwd : pwd[k] \in requirements_special
      [] i = 6 -> ~(\E k \in DOMAIN pwd : isspace(pwd[k]))
      [] i = 7 -> pwd \notin requirements_common

\* sum(check(pwd) for _, check in self.requirements), the first n of them
RECURSIVE sum_checks(_, _)
sum_checks(pwd, n) ==
    IF n = 0 THEN 0
    ELSE sum_checks(pwd, n - 1) + (IF requirements(n, pwd) THEN 1 ELSE 0)

\* a variant of strength whose first threshold is score < 3
strength_lt(score) ==
    IF score < 3 THEN <<"#d32f2f", "Weak">>
    ELSE IF score <= 5 THEN <<"#fbc02d", "Medium">>
    ELSE <<"#388e3c", "Strong">>

\* the (color, label) on_password_change chooses for a score
strength(score) ==
    IF score <= 3 THEN <<"#d32f2f", "Weak">>
    ELSE IF score <= 5 THEN <<"#fbc02d", "Medium">>
    ELSE <<"#388e3c", "Strong">>

\* f"Password strength: {label}"
strength_text(label) ==
    CASE label = "Weak" -> "Password strength: Weak"
      [] label = "Medium" -> "Password strength: Medium"
      [] label = "Strong" -> "Password strength: Strong"

NoBox == "none"

\* the form after __init__
InitGui ==
    /\ pwd_entry = [text |-> <<>>, show |-> "*"]
    /\ show_pwd_var = FALSE
    /\ req_labels = [i \in 1..7 |-> FALSE]
    /\ strength_bar = <<>>
    /\ strength_var = ""
    /\ result_label = [text |-> <<>>, fg |-> "black"]
    /\ messagebox = NoBox
    /\ event = "__init__"

\* a variant of on_password_change that leaves the result label alone
on_password_change_keeps_result(pwd) ==
    LET score == sum_checks(pwd, 7)
        color == strength(score)[1]
        label == strength(score)[2]
    IN  /\ req_labels' = [i \in 1..7 |-> requirements(i, pwd)]
        /\ strength_bar' = << [x1 |-> score * 37, fill |-> color] >>
        /\ strength_var' = strength_text(label)
        /\ UNCHANGED result_label
        /\ event' = "on_password_change"

\* on_password_change, run with the entry holding pwd
on_password_change(pwd) ==
    LET score == sum_checks(pwd, 7)
        color == strength(score)[1]
        label == strength(score)[2]
    IN  /\ req_labels' = [i \in 1..7 |-> requirements(i, pwd)]
        /\ strength_bar' = << [x1 |-> score * 37, fill |-> color] >>
        /\ strength_var' = strength_text(label)
        /\ result_label' = [result_label EXCEPT !.text = <<>>]
        /\ event' = "on_password_change"

InitLib ==
    /\ fn = "none"
    /\ ret = FALSE
    /\ ret_line = 0
    /\ stdout = <<>>

(***************************************************************************)
(* FnSpec: the functions of password_validator.py applied to a password    *)
(***************************************************************************)
FnInit ==
    /\ password \in Inputs
    /\ InitLib
    /\ InitGui

Returns(name, value, line) ==
    /\ fn = "none"
    /\ fn' = name
    /\ ret' = value
    /\ ret_line' = line
    /\ UNCHANGED <<password, stdout>>
    /\ UNCHANGED guiVars

Call_is_valid_password ==
    Returns("is_valid_password", is_valid_password(password),
            is_valid_password_return(password))

Call_has_excessive_repetition ==
    Returns("has_excessive_repetition", has_excessive_repetition(password), 0)

Call_has_keyboard_pattern ==
    Returns("has_keyboard_pattern", has_keyboard_pattern(password), 0)

Call_has_ambiguous_characters ==
    Returns("has_ambiguous_characters", has_ambiguous_characters(password), 0)

Call_looks_human_like ==
    Returns("looks_human_like", looks_human_like(password), 0)

\* check_passwords_from_list(passwords, expected_result): one turn of its
\* loop, for a pwd of the list; the line printed is <<pwd, result, expected>>
check_passwords_from_list(passwords, expected_result) ==
    /\ fn = "none"
    /\ password \in Range(passwords)
    /\ fn' = "check_passwords_from_list"
    /\ ret' = is_valid_password(password)
    /\ stdout' = <<password, ret', expected_result>>
    /\ UNCHANGED <<password, ret_line>>
    /\ UNCHANGED guiVars

\* __main__: the two documented lists are checked
Main_check_accepted == check_passwords_from_list(accepted_passwords, TRUE)

Main_check_rejected == check_passwords_from_list(rejected_passwords, FALSE)

FnNext ==
    \/ Call_is_valid_password
    \/ Call_has_excessive_repetition
    \/ Call_has_keyboard_pattern
    \/ Call_has_ambiguous_characters
    \/ Call_looks_human_like
    \/ Main_check_accepted
    \/ Main_check_rejected

FnSpec == FnInit /\ [][FnNext]_vars

(***************************************************************************)
(* Spec: the form under its user's events.  A key stroke in the entry is   *)
(* one step: the Entry widget applies the edit and, at <KeyRelease>,       *)
(* on_password_change runs on the edited text.  The edits are a typed      *)
(* character at the end of the text, BackSpace, pasting one of Clipboard   *)
(* over the whole text, and a key that edits nothing.                      *)
(***************************************************************************)
MaxEntryLen == 9

Keys == {"!"}

Clipboard ==
    { <<"B","c","d","2","!","f","g","h">>,
       <<"B","c","d","2","!","f","g">>,
       <<"S","t","r","o","n","g","P","1">>,
       <<"B","a","a","a","a","a","1","!">>,
       <<"Q","w","e","r","t","y","1","!">>,
       <<"B","l","1","I","l","1","a","!">>,
       <<"U+00C9","b","c","d","e","f","1","!">>,
       <<"B","c","d","e","f","U+00B2","!","x">>,
       <<"B","c"," ","d","2","!","f","g","h">>,
       <<"p","a","s","s","w","o","r","d">>,
       <<"b","c","d","e","f","g","h">>,
       <<"b","c","d","2","!","f","g","h">>,
       <<"B","C","D","2","!">>,
       <<"1","2","3","4","5">> }

\* what one key stroke can make of the entry's text
Edits(text) ==
    (IF Len(text) < MaxEntryLen THEN {Append(text, c) : c \in Keys} ELSE {})
        \cup (IF text # <<>> THEN {SubSeq(text, 1, Len(text) - 1)} ELSE {})
        \cup Clipboard
        \cup {text}

\* <KeyRelease> in the entry, after the key's edit of its text
KeyRelease ==
    /\ messagebox = NoBox
    /\ \E edited \in Edits(pwd_entry.text) :
        /\ pwd_entry' = [pwd_entry EXCEPT !.text = edited]
        /\ on_password_change(edited)
    /\ UNCHANGED <<show_pwd_var, messagebox>>
    /\ UNCHANGED libVars

\* the Show checkbutton: the variable flips, then toggle_password runs
toggle_password ==
    /\ messagebox = NoBox
    /\ show_pwd_var' = ~show_pwd_var
    /\ pwd_entry' = [pwd_entry EXCEPT !.show = IF show_pwd_var' THEN "" ELSE "*"]
    /\ event' = "toggle_password"
    /\ UNCHANGED <<req_labels, strength_bar, strength_var, result_label, messagebox>>
    /\ UNCHANGED libVars

clear_fields ==
    /\ messagebox = NoBox
    /\ pwd_entry' = [pwd_entry EXCEPT !.text = <<>>]
    /\ result_label' = [text |-> <<>>, fg |-> "black"]
    /\ req_labels' = [i \in 1..7 |-> FALSE]
    /\ strength_bar' = <<>>
    /\ strength_var' = ""
    /\ event' = "clear_fields"
    /\ UNCHANGED <<show_pwd_var, messagebox>>
    /\ UNCHANGED libVars

\* a variant of validate_password without the empty-entry guard
validate_password_no_guard ==
    /\ messagebox = NoBox
    /\ event' = "validate_password"
    /\ result_label' =
            IF is_valid_password(pwd_entry.text)
            THEN [text |-> <<"Accepted", pwd_entry.text>>, fg |-> "#388e3c"]
            ELSE [text |-> <<"Rejected", pwd_entry.text>>, fg |-> "#d32f2f"]
    /\ UNCHANGED messagebox
    /\ UNCHANGED <<pwd_entry, show_pwd_var, req_labels, strength_bar, strength_var>>
    /\ UNCHANGED libVars

validate_password ==
    /\ messagebox = NoBox
    /\ event' = "validate_password"
    /\ IF pwd_entry.text = <<>>
       THEN /\ messagebox' = "Please enter a password."
            /\ UNCHANGED result_label
       ELSE /\ result_label' =
                IF is_valid_password(pwd_entry.text)
                THEN [text |-> <<"Accepted", pwd_entry.text>>, fg |-> "#388e3c"]
                ELSE [text |-> <<"Rejected", pwd_entry.text>>, fg |-> "#d32f2f"]
            /\ UNCHANGED messagebox
    /\ UNCHANGED <<pwd_entry, show_pwd_var, req_labels, strength_bar, strength_var>>
    /\ UNCHANGED libVars

\* the user closes the warning box; showwarning and validate_password return
showwarning_return ==
    /\ messagebox # NoBox
    /\ messagebox' = NoBox
    /\ UNCHANGED <<pwd_entry, show_pwd_var, req_labels, strength_bar,
                   strength_var, result_label, event>>
    /\ UNCHANGED libVars

Init ==
    /\ InitGui
    /\ password = <<>>
    /\ InitLib

Next ==
    \/ KeyRelease
    \/ toggle_password
    \/ clear_fields
    \/ validate_password
    \/ showwarning_return

Spec == Init /\ [][Next]_vars

(***************************************************************************)
(* The eleven rules as the specification words them (section 4.1), with    *)
(* characters classified as Unicode code points (sections 3 and 9).        *)
(***************************************************************************)
Occurrences(p, c) == Cardinality({i \in DOMAIN p : p[i] = c})

\* floor(n / 2), by its defining inequality
HalfFloor(n) == CHOOSE h \in 0..n : 2 * h <= n /\ n < 2 * h + 2

\* the largest number of occurrences of one character in p
MostOccurrences(p) ==
    IF p = <<>> THEN 0
    ELSE CHOOSE m \in 1..Len(p) :
            /\ \E c \in Range(p) : Occurrences(p, c) = m
            /\ \A c \in Range(p) : Occurrences(p, c) <= m

Denylist ==
    { <<"p","a","s","s","w","o","r","d">>, <<"1","2","3","4","5","6">>,
      <<"q","w","e","r","t","y">>, <<"l","e","t","m","e","i","n">>,
      <<"a","d","m","i","n">>, <<"i","l","o","v","e","y","o","u">> }

SymbolSet == {"!","@","#","$","%","^","&","*","(",")",",",".","?","\"",
              ":","{","}","|","<",">"}

DecimalDigits == ascii_digits \cup {"U+0663"}

KeyboardSubstrings ==
    { <<"q","w","e","r","t","y">>, <<"a","s","d","f","g","h">>,
      <<"z","x","c","v","b","n">>, <<"1","2","3","4","5">>,
      <<"p","a","s","s","w","o","r","d">> }

AmbiguousGroups == { {"l","1","I"}, {"O","0","o"} }

Rule(r, p) ==
    CASE r = 1  -> p \notin Denylist
      [] r = 2  -> Len(p) >= 8
      [] r = 3  -> \A i \in DOMAIN p : ~isspace(p[i])
      [] r = 4  -> \E i \in DOMAIN p : isupper(p[i])
      [] r = 5  -> \E i \in DOMAIN p : islower(p[i])
      [] r = 6  -> \E i \in DOMAIN p : p[i] \in DecimalDigits
      [] r = 7  -> \E i \in DOMAIN p : p[i] \in SymbolSet
      [] r = 8  -> \A c \in Range(p) : Occurrences(p, c) <= HalfFloor(Len(p))
      [] r = 9  -> \A sub \in KeyboardSubstrings : ~contains(lower(p), sub)
      [] r = 10 -> \A g \in AmbiguousGroups :
                      Cardinality({i \in DOMAIN p : p[i] \in g}) <= HalfFloor(Len(p))
      [] r = 11 -> /\ \E i \in DOMAIN p : isupper(p[i]) \/ islower(p[i])
                   /\ \E i \in DOMAIN p : p[i] \in DecimalDigits
                   /\ \E i \in DOMAIN p : p[i] \in SymbolSet

IsAscii(p) ==
    \A i \in DOMAIN p : p[i] \notin {"U+00C9", "U+00E9", "U+00B2", "U+0663", "U+00A0"}

(***************************************************************************)
(* Properties of password_validator.py, under FnSpec                       *)
(***************************************************************************)
\* C1: is_valid_password(p) is True if and only if every one of the eleven
\* rules of section 4.1 holds of p.
C1_ValidIffAllRules ==
    fn = "is_valid_password" =>
        (ret <=> \A r \in 1..11 : Rule(r, password))

\* C1 on passwords of ASCII characters only, where [A-Z] and [a-z] are the
\* uppercase and the lowercase letters.
C1_ValidIffAllRules_Ascii ==
    (fn = "is_valid_password" /\ IsAscii(password)) =>
        (ret <=> \A r \in 1..11 : Rule(r, password))

\* C4: a password of exactly 8 characters that meets the ten other rules is
\* accepted, and a password of 7 characters or fewer is rejected.
C4_LengthBoundary ==
    fn = "is_valid_password" =>
        /\ (Len(password) = 8 /\ \A r \in (1..11) \ {2} : Rule(r, password)) => ret
        /\ Len(password) <= 7 => ~ret

\* C5: has_excessive_repetition(p) is true exactly when some character occurs
\* more than floor(len(p)/2) times; of 8 characters 4 equal ones pass and 5
\* do not, of 7 characters 3 equal ones pass and 4 do not.
C5_Repetition ==
    fn = "has_excessive_repetition" =>
        /\ ret <=> \E c \in Range(password) :
                      Occurrences(password, c) > HalfFloor(Len(password))
        /\ (Len(password) = 8 /\ MostOccurrences(password) = 4) => ~ret
        /\ (Len(password) = 8 /\ MostOccurrences(password) = 5) => ret
        /\ (Len(password) = 7 /\ MostOccurrences(password) = 3) => ~ret
        /\ (Len(password) = 7 /\ MostOccurrences(password) = 4) => ret

C5_Witness ==
    /\ fn = "has_excessive_repetition"
    /\ Len(password) = 8
    /\ MostOccurrences(password) = 4
    /\ ~ret

\* C6: each documented accepted password is accepted and each documented
\* rejected password is rejected: every line check_passwords_from_list prints
\* carries the result the list expects.
C6_DocumentedPasswords ==
    fn = "check_passwords_from_list" =>
        /\ stdout[1] = password
        /\ stdout[2] = stdout[3]
        /\ password \in Range(accepted_passwords) => ret
        /\ password \in Range(rejected_passwords) => ~ret

C6_Witness ==
    /\ fn = "check_passwords_from_list"
    /\ stdout = << <<"P","a","s","s"," ","w","o","r","d","1","!">>, FALSE, FALSE >>

\* C8: when the uppercase, lowercase, digit and special-character checks of
\* is_valid_password pass, looks_human_like is True, so is_valid_password
\* never returns at its looks_human_like check (line 161).
C8_HumanLikeImplied ==
    /\ fn = "is_valid_password" => ret_line # 161
    /\ ( /\ fn = "looks_human_like"
         /\ re_search(re_upper, password)
         /\ re_search(re_lower, password)
         /\ re_search(re_digit, password)
         /\ re_search(re_symbol, password) ) => ret

C8_Witness ==
    /\ fn = "is_valid_password"
    /\ ret_line = 165
    /\ "U+0663" \in Range(password)

\* C9 over the inputs of FnSpec: what is_valid_password accepts satisfies the
\* seven checklist predicates of the form.
C9_AcceptedImpliesRequirements ==
    (fn = "is_valid_password" /\ ret) =>
        \A i \in 1..7 : requirements(i, password)

(***************************************************************************)
(* Properties of the form, under Spec                                      *)
(***************************************************************************)
Verdict(text) ==
    <<IF is_valid_password(text) THEN "Accepted" ELSE "Rejected", text>>

AllChecked == \A i \in 1..7 : req_labels[i]

\* C2: the accept/reject outcome of the full evaluation that drives the
\* checklist (every requirement checked) agrees with is_valid_password.
C2_ChecklistAgrees ==
    event = "on_password_change" =>
        (AllChecked <=> is_valid_password(pwd_entry.text))

\* C3: after on_password_change the score is the number of the seven display
\* rules that hold of the entry's text, and the label is Weak for a score of
\* at most 3, Medium for 4 or 5, Strong for 6 or more.
C3_ScoreAndBand ==
    event = "on_password_change" =>
        LET n == Cardinality({i \in 1..7 : requirements(i, pwd_entry.text)})
        IN  /\ Len(strength_bar) = 1
            /\ strength_bar[1].x1 = 37 * n
            /\ \A i \in 1..7 : req_labels[i] = requirements(i, pwd_entry.text)
            /\ n <= 3 => strength_var = "Password strength: Weak"
            /\ n \in {4, 5} => strength_var = "Password strength: Medium"
            /\ n >= 6 => strength_var = "Password strength: Strong"

C3_Witness ==
    /\ event = "on_password_change"
    /\ strength_bar[1].x1 = 37 * 3
    /\ strength_var = "Password strength: Weak"

\* C7: validate_password with an empty entry opens the warning and writes
\* nothing; with a non-empty entry it opens no warning and writes the verdict;
\* no other event opens the warning; is_valid_password("") is False.
C7_EmptyInputWarning ==
    [][ /\ ~is_valid_password(<<>>)
        /\ (messagebox = NoBox /\ messagebox' # NoBox) =>
                (event' = "validate_password" /\ pwd_entry.text = <<>>)
        /\ (messagebox = NoBox /\ event' = "validate_password") =>
                IF pwd_entry.text = <<>>
                THEN /\ messagebox' = "Please enter a password."
                     /\ UNCHANGED <<result_label, req_labels, strength_bar,
                                    strength_var, pwd_entry>>
                ELSE /\ messagebox' = NoBox
                     /\ result_label'.text = Verdict(pwd_entry.text)
      ]_vars

C7_Witness ==
    /\ messagebox = "Please enter a password."
    /\ event = "validate_password"
    /\ req_labels[7]
    /\ result_label.text = <<>>

\* C9: a text that is_valid_password accepts satisfies all seven checklist
\* predicates, so an Accepted verdict is only ever shown beside a checklist
\* with every requirement checked and the strength Strong.
C9_AcceptedImpliesChecklist ==
    /\ is_valid_password(pwd_entry.text) =>
            \A i \in 1..7 : requirements(i, pwd_entry.text)
    /\ (result_label.text # <<>> /\ result_label.text[1] = "Accepted") =>
            /\ AllChecked
            /\ strength_bar = << [x1 |-> 37 * 7, fill |-> "#388e3c"] >>
            /\ strength_var = "Password strength: Strong"

C9_Witness ==
    /\ result_label.text # <<>>
    /\ result_label.text[1] = "Accepted"

\* C10: the result label is empty or shows the verdict of the entry's current
\* text, and it is empty after every on_password_change and clear_fields.
C10_NoStaleVerdict ==
    /\ result_label.text = <<>> \/ result_label.text = Verdict(pwd_entry.text)
    /\ event \in {"on_password_change", "clear_fields"} => result_label.text = <<>>

C10_Witness ==
    /\ event = "on_password_change"
    /\ result_label.fg = "#388e3c"
    /\ result_label.text = <<>>
    /\ pwd_entry.text # <<>>

====
